---- MODULE Spec2Model ----
(***************************************************************************)
(* Model of src/Finder.py, the Streamlit script "Company Name Duplicate    *)
(* Finder".  One behaviour is one execution of the script, top to bottom,  *)
(* on the widget values of Init (the uploaded file and the threshold).     *)
(*                                                                         *)
(* A cell of the 'Company Name' column is a null (NaN/None, which is also  *)
(* what pd.read_csv makes of an empty field), a Python str or a Python     *)
(* int (an object column of mixed types holds both).  A str is a sequence  *)
(* of one-character strings.                                               *)
(***************************************************************************)
EXTENDS Integers, Sequences, FiniteSets, TLC

VARIABLES uploaded_file, threshold, pc, df, company_names, idx, comparisons,
          duplicates, results_df, displayed, csv, metrics, msgs

vars == <<uploaded_file, threshold, pc, df, company_names, idx, comparisons,
          duplicates, results_df, displayed, csv, metrics, msgs>>

(***************************************************************************)
(* Bounds of the model.                                                    *)
(***************************************************************************)
\* Largest number of rows of an uploaded table.
MaxRows == 3

\* The str values a cell is drawn from.
SampleStrs ==
    { <<"1">>, <<"a">>, <<"a", "b", "c">>,
      <<"a", "b", "c", "d", "e", "f", "g", "h">>,
      <<"a", "b", "c", "d", "e", "f", "g", "h", "i">>,
      <<"a", "b", "c", "d", "e", "f", "g", "h", "i", "j">> }

\* The int values a cell is drawn from.
SampleInts == { 1 }

\* A longer column an uploaded table is drawn from besides the columns of
\* up to MaxRows cells: seven names, each the previous one and a letter.
SampleLongColumn ==
    << <<"a", "b">>,
       <<"a", "b", "c">>,
       <<"a", "b", "c", "d">>,
       <<"a", "b", "c", "d", "e">>,
       <<"a", "b", "c", "d", "e", "f">>,
       <<"a", "b", "c", "d", "e", "f", "g">>,
       <<"a", "b", "c", "d", "e", "f", "g", "h">> >>

\* The header rows an uploaded table is drawn from.
SampleHeaders ==
    { <<"Company Name">>, <<"ID", "Company Name">>,
      <<"ID", "Name">>, <<"company name">> }

(***************************************************************************)
(* Values.                                                                 *)
(***************************************************************************)
\* A name that is bound to nothing is the empty sequence, a bound one the
\* sequence of its value.
None == <<>>

Some(v) == <<v>>

Get(o) == o[1]

Null == [t |-> "null"]

StrCell(s) == [t |-> "str", s |-> s]

IntCell(n) == [t |-> "int", n |-> n]

Cells == {Null} \cup {StrCell(s) : s \in SampleStrs}
                \cup {IntCell(n) : n \in SampleInts}

RequiredColumn == "Company Name"

\* st.slider(min_value=50, max_value=100, value=80, step=5)
SliderMin == 50

SliderMax == 100

SliderStep == 5

SliderValues ==
    { v \in SliderMin..SliderMax : (v - SliderMin) % SliderStep = 0 }

(***************************************************************************)
(* Sequence helpers.                                                       *)
(***************************************************************************)
Range(s) == { s[k] : k \in 1..Len(s) }

SeqsUpTo(S, n) == UNION { [1..k -> S] : k \in 0..n }

Max2(a, b) == IF a >= b THEN a ELSE b

(***************************************************************************)
(* str(): the text of a cell value.                                        *)
(***************************************************************************)
Digit(d) == <<"0", "1", "2", "3", "4", "5", "6", "7", "8", "9">>[d + 1]

RECURSIVE IntToStr(_)
IntToStr(n) ==
    IF n < 10 THEN <<Digit(n)>>
    ELSE Append(IntToStr(n \div 10), Digit(n % 10))

Str(c) == IF c.t = "str" THEN c.s ELSE IntToStr(c.n)

(***************************************************************************)
(* Integer helpers of the float64 arithmetic.                              *)
(***************************************************************************)
RECURSIVE Gcd(_, _)
Gcd(a, b) == IF b = 0 THEN a ELSE Gcd(b, a % b)

RECURSIVE Pow2(_)
Pow2(k) == IF k = 0 THEN 1 ELSE 2 * Pow2(k - 1)

\* 2^k modulo d, by squaring.
RECURSIVE Pow2Mod(_, _)
Pow2Mod(k, d) ==
    IF k = 0 THEN 1 % d
    ELSE IF k % 2 = 1 THEN (2 * Pow2Mod(k - 1, d)) % d
    ELSE LET h == Pow2Mod(k \div 2, d) IN (h * h) % d

RECURSIVE OddPart(_)
OddPart(b) == IF b % 2 = 0 THEN OddPart(b \div 2) ELSE b

RECURSIVE TwoExponent(_)
TwoExponent(b) == IF b % 2 = 0 THEN 1 + TwoExponent(b \div 2) ELSE 0

\* The e with 2^e <= a/b < 2^(e+1), for a, b > 0.
RECURSIVE FloorLog2Up(_, _, _)
FloorLog2Up(a, b, e) ==
    IF b * Pow2(e + 1) <= a THEN FloorLog2Up(a, b, e + 1) ELSE e

RECURSIVE FloorLog2Down(_, _, _)
FloorLog2Down(a, b, j) ==
    IF a * Pow2(j) < b THEN FloorLog2Down(a, b, j + 1) ELSE -j

FloorLog2(a, b) ==
    IF a >= b THEN FloorLog2Up(a, b, 0) ELSE FloorLog2Down(a, b, 0)

(***************************************************************************)
(* Unbounded naturals as sequences of bits, the most significant first:    *)
(* the 53-bit significands of float64 values.                              *)
(***************************************************************************)
Zeros(n) == [ i \in 1..n |-> 0 ]

Last(x) == x[Len(x)]

\* The bit of weight 2^i.
Bit(x, i) == IF i < Len(x) THEN x[Len(x) - i] ELSE 0

RECURSIVE BitsOf(_)
BitsOf(n) == IF n = 0 THEN <<>> ELSE Append(BitsOf(n \div 2), n % 2)

StripZeros(x) ==
    IF \A i \in 1..Len(x) : x[i] = 0 THEN <<>>
    ELSE LET first == CHOOSE i \in 1..Len(x) :
                          x[i] = 1 /\ \A g \in 1..(i - 1) : x[g] = 0
         IN  SubSeq(x, first, Len(x))

NotBits(x) == [ i \in 1..Len(x) |-> 1 - x[i] ]

\* x + y: a carry enters bit i when some lower bit makes one and every bit
\* between passes it on.
AddBits(x, y) ==
    LET n == Max2(Len(x), Len(y)) + 1
        carry(i) ==
            \E j \in 0..(i - 1) :
                /\ Bit(x, j) = 1 /\ Bit(y, j) = 1
                /\ \A h \in (j + 1)..(i - 1) : Bit(x, h) + Bit(y, h) >= 1
    IN  StripZeros([ p \in 1..n |->
            (Bit(x, n - p) + Bit(y, n - p)
               + (IF carry(n - p) THEN 1 ELSE 0)) % 2 ])

IncBits(x) == AddBits(x, <<1>>)

\* -1, 0 or 1 as x is less than, equal to or more than y (no leading zeros).
CmpBits(x, y) ==
    IF Len(x) # Len(y) THEN (IF Len(x) < Len(y) THEN -1 ELSE 1)
    ELSE IF \A h \in 1..Len(x) : x[h] = y[h] THEN 0
    ELSE LET i == CHOOSE h \in 1..Len(x) :
                      x[h] # y[h] /\ \A g \in 1..(h - 1) : x[g] = y[g]
         IN  IF x[i] < y[i] THEN -1 ELSE 1

SignificandBits == 53

\* x rounded to a float64 significand, a tie to the even one: the kept bits
\* and the number of bits dropped.
RoundBits(x) ==
    IF Len(x) <= SignificandBits THEN <<x, 0>>
    ELSE LET keep == SubSeq(x, 1, SignificandBits)
             rest == SubSeq(x, SignificandBits + 1, Len(x))
             up == /\ rest[1] = 1
                   /\ \/ \E i \in 2..Len(rest) : rest[i] = 1
                      \/ Last(keep) = 1
         IN  <<IF up THEN IncBits(keep) ELSE keep, Len(x) - SignificandBits>>

\* The remainder of r * 2^(p-1) by m: what long division of r by m leaves
\* after p bits of the quotient.
RemAfter(r, m, p) == ((r % m) * Pow2Mod(p - 1, m)) % m

\* The first n bits of r / m for m <= r < 2m.
DivBits(r, m, n) ==
    [ p \in 1..n |->
        IF p = 1 THEN 1
        ELSE IF 2 * RemAfter(r, m, p - 1) >= m THEN 1 ELSE 0 ]

\* Twice the remainder left after them.
DivRem(r, m, n) == 2 * RemAfter(r, m, n)

(***************************************************************************)
(* fuzz.ratio(s1, s2) of thefuzz on rapidfuzz: with dist the Indel         *)
(* distance len(s1) + len(s2) - 2 * LCS and maximum = len(s1) + len(s2),   *)
(* int(round((1.0 - dist / maximum) * 100)) in float64; 100 for two empty  *)
(* strings.                                                                *)
(***************************************************************************)
RECURSIVE LCS(_, _)
LCS(a, b) ==
    IF a = <<>> \/ b = <<>> THEN 0
    ELSE IF Head(a) = Head(b) THEN 1 + LCS(Tail(a), Tail(b))
    ELSE Max2(LCS(Tail(a), b), LCS(a, Tail(b)))

\* For 0 < dist < maximum: -1, 0 or 1 as the float64 value of
\* (1.0 - dist / maximum) * 100 is less than, equal to or more than half / 2.
\* Each of the three operations rounds its exact result to 53 bits.
FloatScoreCmp(dist, maximum, half) ==
    LET j == -FloorLog2Down(dist, maximum, 0)
        q == DivBits(dist * Pow2(j), maximum, SignificandBits)
        rem2 == DivRem(dist * Pow2(j), maximum, SignificandBits)
        quot == IF rem2 > maximum \/ (rem2 = maximum /\ Last(q) = 1)
                THEN IncBits(q) ELSE q
        k == SignificandBits - 1 + j
        padded == Zeros(k - Len(quot)) \o quot
        diff == RoundBits(StripZeros(IncBits(NotBits(padded))))
        times == RoundBits(AddBits(AddBits(diff[1] \o Zeros(6),
                                           diff[1] \o Zeros(5)),
                                   diff[1] \o Zeros(2)))
    IN  CmpBits(StripZeros(times[1] \o Zeros(diff[2] + times[2] + 1)),
                BitsOf(half) \o Zeros(k))

\* The float is off the exact 200 * LCS / maximum by less than any distance
\* to a tie but 0, so the float arithmetic decides the exact ties only.
RatioOf(lcs, maximum) ==
    LET q == (200 * lcs) \div maximum
        r == (200 * lcs) % maximum
        c == FloatScoreCmp(maximum - 2 * lcs, maximum, 2 * q + 1)
    IN  IF 2 * r < maximum THEN q
        ELSE IF 2 * r > maximum THEN q + 1
        ELSE IF c < 0 THEN q
        ELSE IF c > 0 THEN q + 1
        ELSE IF q % 2 = 0 THEN q ELSE q + 1

ratio(s1, s2) ==
    IF Len(s1) + Len(s2) = 0 THEN 100
    ELSE RatioOf(LCS(s1, s2), Len(s1) + Len(s2))

(***************************************************************************)
(* df['Company Name'].dropna().unique()                                    *)
(***************************************************************************)
dropna(col) == SelectSeq(col, LAMBDA c : c # Null)

\* The distinct values in order of first appearance; values are compared
\* as Python compares them, an int never equal to a str.
RECURSIVE unique(_)
unique(col) ==
    IF col = <<>> THEN <<>>
    ELSE LET init == unique(SubSeq(col, 1, Len(col) - 1))
             last == col[Len(col)]
         IN  IF last \in Range(init) THEN init ELSE Append(init, last)

(***************************************************************************)
(* combinations(company_names, 2): the index pairs (i, j), i < j, in       *)
(* lexicographic order.                                                    *)
(***************************************************************************)
FirstPair(n) == IF n >= 2 THEN Some(<<1, 2>>) ELSE None

\* A pair loop that takes only the first partner of each candidate.
NextPairSkipping(p, n) ==
    IF p[1] + 1 < n THEN Some(<<p[1] + 1, p[1] + 2>>) ELSE None

NextPair(p, n) ==
    IF p[2] < n THEN Some(<<p[1], p[2] + 1>>)
    ELSE IF p[1] + 1 < n THEN Some(<<p[1] + 1, p[1] + 2>>)
    ELSE None

(***************************************************************************)
(* The uploaded files: nothing, a file pd.read_csv raises on, or a table.  *)
(* A table without the required column carries no names.  A column that    *)
(* holds an int beside a null is an object column, so it holds a str too   *)
(* (an all-numeric column with a null would be read as floats).            *)
(***************************************************************************)
Malformed == [t |-> "malformed"]

WellTyped(col) ==
    (\E k \in 1..Len(col) : col[k].t = "int") /\ Null \in Range(col)
        => \E k \in 1..Len(col) : col[k].t = "str"

Table(h, col) == [t |-> "table", columns |-> h, names |-> col]

Tables ==
    { Table(h, col) :
        h \in { g \in SampleHeaders : RequiredColumn \in Range(g) },
        col \in { c \in SeqsUpTo(Cells, MaxRows) : WellTyped(c) }
                 \cup { [ k \in 1..Len(SampleLongColumn) |->
                            StrCell(SampleLongColumn[k]) ] } }
    \cup
    { Table(h, <<>>) :
        h \in { g \in SampleHeaders : RequiredColumn \notin Range(g) } }

Files == {None, Some(Malformed)} \cup { Some(table) : table \in Tables }

(***************************************************************************)
(* Messages shown by the script.                                           *)
(***************************************************************************)
Msg(kind, what, arg) == [kind |-> kind, what |-> what, arg |-> arg]

Init ==
    /\ uploaded_file \in Files
    /\ threshold \in SliderValues
    /\ pc = "start"
    /\ df = None
    /\ company_names = <<>>
    /\ idx = None
    /\ comparisons = <<>>
    /\ duplicates = <<>>
    /\ results_df = None
    /\ displayed = None
    /\ csv = None
    /\ metrics = None
    /\ msgs = <<>>

\* Line 18, else: no file was uploaded.
NoFile ==
    /\ pc = "start"
    /\ uploaded_file = None
    /\ msgs' = Append(msgs, Msg("info", "please_upload", None))
    /\ pc' = "done"
    /\ UNCHANGED <<uploaded_file, threshold, df, company_names, idx,
                   comparisons, duplicates, results_df, displayed, csv,
                   metrics>>

\* Line 21: pd.read_csv raises on a file it cannot parse; the except clause
\* of line 102 reports it.
ReadCsv ==
    /\ pc = "start"
    /\ uploaded_file # None
    /\ IF uploaded_file = Some(Malformed)
       THEN /\ msgs' = Append(msgs, Msg("error", "processing_file", None))
            /\ pc' = "done"
            /\ df' = df
       ELSE /\ df' = uploaded_file
            /\ pc' = "check"
            /\ msgs' = msgs
    /\ UNCHANGED <<uploaded_file, threshold, company_names, idx, comparisons,
                   duplicates, results_df, displayed, csv, metrics>>

\* A column check that never fails.
ColumnNeverMissing(table) == FALSE

\* Line 24: 'Company Name' not in df.columns
ColumnMissing(table) == RequiredColumn \notin Range(table.columns)

\* Lines 24-32: the column check.
CheckColumn ==
    /\ pc = "check"
    /\ IF ColumnMissing(Get(df))
       THEN /\ msgs' = msgs \o << Msg("error", "missing_column", None),
                                  Msg("info", "available_columns",
                                      Get(df).columns) >>
            /\ pc' = "done"
       ELSE /\ msgs' = Append(msgs,
                               Msg("success", "loaded", Len(Get(df).names)))
            /\ pc' = "extract"
    /\ UNCHANGED <<uploaded_file, threshold, df, company_names, idx,
                   comparisons, duplicates, results_df, displayed, csv,
                   metrics>>

\* Lines 35-40: the candidates, and the start of the pair loop.
ExtractNames ==
    /\ pc = "extract"
    /\ company_names' = unique(dropna(Get(df).names))
    /\ msgs' = Append(msgs, Msg("info", "unique_names", Len(company_names')))
    /\ duplicates' = <<>>
    /\ idx' = FirstPair(Len(company_names'))
    /\ pc' = "loop"
    /\ UNCHANGED <<uploaded_file, threshold, df, comparisons, results_df,
                   displayed, csv, metrics>>

\* A filter that drops a pair scoring exactly the threshold.
PassesStrictly(similarity, t) == similarity > t

\* Line 45: similarity >= threshold
Passes(similarity, t) == similarity >= t

Row(name1, name2, similarity) ==
    [name1 |-> name1, name2 |-> name2, score |-> similarity]

\* Lines 43-50: one iteration of the pair loop.  comparisons is the log of
\* the calls of fuzz.ratio, by the positions of the two candidates.
ComparePair ==
    /\ pc = "loop"
    /\ idx # None
    /\ LET name1 == company_names[Get(idx)[1]]
           name2 == company_names[Get(idx)[2]]
           similarity == ratio(Str(name1), Str(name2))
       IN  /\ comparisons' = Append(comparisons, Get(idx))
           /\ duplicates' =
                IF Passes(similarity, threshold)
                THEN Append(duplicates, Row(name1, name2, similarity))
                ELSE duplicates
    /\ idx' = NextPair(Get(idx), Len(company_names))
    /\ UNCHANGED <<uploaded_file, threshold, pc, df, company_names,
                   results_df, displayed, csv, metrics, msgs>>

\* A branch that takes a single match for none.
TruthyFromTwo(list) == Len(list) > 1

\* Line 53: if duplicates
Truthy(list) == list # <<>>

(***************************************************************************)
(* Line 55: sort_values('Similarity Score', ascending=False) with the      *)
(* default kind='quicksort'.  pandas sorts one column with nargsort, which *)
(* for a descending sort reverses the values, takes numpy's argsort of     *)
(* them and reverses the result.  numpy's argsort of kind 'quicksort' is   *)
(* an introsort over the array tosort of positions: ranges of more than    *)
(* SMALL_QUICKSORT + 1 positions are partitioned about the median of       *)
(* three, the larger part is put on a stack, and a range that is small is  *)
(* sorted by insertion.  The introsort's switch to heapsort after          *)
(* 2 * floor(log2(n)) nested partitions needs more rows than a table of    *)
(* the model yields, and is left out.  Positions are counted from 1.       *)
(***************************************************************************)
SMALL_QUICKSORT == 16

\* INTP_SWAP(tosort[i], tosort[j])
INTP_SWAP(tosort, i, j) ==
    [tosort EXCEPT ![i] = tosort[j], ![j] = tosort[i]]

\* The three conditional swaps that put the median of the first, the
\* middle and the last value at pm.
MedianOfThree(v, tosort, pl, pm, pr) ==
    LET t1 == IF v[tosort[pm]] < v[tosort[pl]]
              THEN INTP_SWAP(tosort, pm, pl) ELSE tosort
        t2 == IF v[t1[pr]] < v[t1[pm]] THEN INTP_SWAP(t1, pr, pm) ELSE t1
    IN  IF v[t2[pm]] < v[t2[pl]] THEN INTP_SWAP(t2, pm, pl) ELSE t2

\* do { ++pi; } while (v[*pi] < vp), entered with pi already advanced.
RECURSIVE ScanUp(_, _, _, _)
ScanUp(v, tosort, pi, vp) ==
    IF v[tosort[pi]] < vp THEN ScanUp(v, tosort, pi + 1, vp) ELSE pi

\* do { --pj; } while (vp < v[*pj]), entered with pj already lowered.
RECURSIVE ScanDown(_, _, _, _)
ScanDown(v, tosort, pj, vp) ==
    IF vp < v[tosort[pj]] THEN ScanDown(v, tosort, pj - 1, vp) ELSE pj

\* The partition loop: the positions and where the scans met.
RECURSIVE Partition(_, _, _, _, _)
Partition(v, tosort, pi, pj, vp) ==
    LET i == ScanUp(v, tosort, pi + 1, vp)
        j == ScanDown(v, tosort, pj - 1, vp)
    IN  IF i >= j THEN [tosort |-> tosort, pi |-> i]
        ELSE Partition(v, INTP_SWAP(tosort, i, j), i, j, vp)

\* One pass of the insertion sort: the position at pi moves down past the
\* positions of strictly greater value that stand before it from pl on.
Insert(v, tosort, pl, pi) ==
    LET vi == tosort[pi]
        pj == CHOOSE j \in pl..pi :
                  /\ \A k \in j..(pi - 1) : v[vi] < v[tosort[k]]
                  /\ (j > pl => ~ (v[vi] < v[tosort[j - 1]]))
    IN  [ k \in 1..Len(tosort) |->
            IF k = pj THEN vi
            ELSE IF pj < k /\ k <= pi THEN tosort[k - 1]
            ELSE tosort[k] ]

\* The insertion sort of the positions pl..pr, from pi on.
RECURSIVE InsertionSort(_, _, _, _, _)
InsertionSort(v, tosort, pl, pr, pi) ==
    IF pi > pr THEN tosort
    ELSE InsertionSort(v, Insert(v, tosort, pl, pi), pl, pr, pi + 1)

\* The main loop of numpy's aquicksort on the range pl..pr with the ranges
\* still to be sorted on the stack.
RECURSIVE Quicksort(_, _, _, _, _)
Quicksort(v, tosort, pl, pr, stack) ==
    IF pr - pl > SMALL_QUICKSORT
    THEN LET pm == pl + ((pr - pl) \div 2)
             t3 == MedianOfThree(v, tosort, pl, pm, pr)
             vp == v[t3[pm]]
             p  == Partition(v, INTP_SWAP(t3, pm, pr - 1), pl, pr - 1, vp)
             t5 == INTP_SWAP(p.tosort, p.pi, pr - 1)
         IN  IF p.pi - pl < pr - p.pi
             THEN Quicksort(v, t5, pl, p.pi - 1,
                            << <<p.pi + 1, pr>> >> \o stack)
             ELSE Quicksort(v, t5, p.pi + 1, pr,
                            << <<pl, p.pi - 1>> >> \o stack)
    ELSE LET sorted == InsertionSort(v, tosort, pl, pr, pl + 1)
         IN  IF stack = <<>> THEN sorted
             ELSE Quicksort(v, sorted, Head(stack)[1], Head(stack)[2],
                            Tail(stack))

\* numpy argsort(kind='quicksort'): the positions of v in ascending order
\* of value.
aquicksort(v) ==
    Quicksort(v, [ k \in 1..Len(v) |-> k ], 1, Len(v), <<>>)

\* pandas nargsort(items, kind='quicksort', ascending=False) of values none
\* of which is missing: the positions in descending order of value.
nargsort(items) ==
    LET n        == Len(items)
        reversed == [ k \in 1..n |-> items[n + 1 - k] ]
        order    == aquicksort(reversed)
        indexer  == [ k \in 1..n |-> n + 1 - order[k] ]
    IN  [ k \in 1..n |-> indexer[n + 1 - k] ]

\* A sort that leaves the rows as they are.
sort_values_unsorted(rows) == rows

\* Line 55: the rows in the order of nargsort of their scores.
sort_values(rows) ==
    LET indexer == nargsort([ k \in 1..Len(rows) |-> rows[k].score ])
    IN  [ k \in 1..Len(rows) |-> rows[indexer[k]] ]

\* Lines 53-57: the results dataframe.
SortResults ==
    /\ pc = "loop"
    /\ idx = None
    /\ Truthy(duplicates)
    /\ results_df' = Some(sort_values(duplicates))
    /\ msgs' = Append(msgs,
                      Msg("success", "found_pairs", Len(Get(results_df'))))
    /\ pc' = "show"
    /\ UNCHANGED <<uploaded_file, threshold, df, company_names, idx,
                   comparisons, duplicates, displayed, csv, metrics>>

\* Lines 98-100: no pair reached the threshold.
NoDuplicates ==
    /\ pc = "loop"
    /\ idx = None
    /\ ~Truthy(duplicates)
    /\ msgs' = msgs \o << Msg("warning", "no_duplicates", threshold),
                          Msg("info", "try_lowering", None) >>
    /\ pc' = "done"
    /\ UNCHANGED <<uploaded_file, threshold, df, company_names, idx,
                   comparisons, duplicates, results_df, displayed, csv,
                   metrics>>

\* Lines 63-70: the colour of a score.
highlight_similarity(val) ==
    IF val >= 95 THEN "#ff4b4b"
    ELSE IF val >= 85 THEN "#ffa500"
    ELSE "#ffd700"

\* Lines 72-77: the styled table that is displayed.
Styled(rows) ==
    [ k \in 1..Len(rows) |->
        [name1 |-> rows[k].name1, name2 |-> rows[k].name2,
         score |-> rows[k].score,
         color |-> highlight_similarity(rows[k].score)] ]

\* Line 80: to_csv(index=False), a header line and one line of cell texts
\* per row.
CsvHeader == <<"Company Name 1", "Company Name 2", "Similarity Score">>

to_csv(rows) ==
    <<CsvHeader>> \o
    [ k \in 1..Len(rows) |->
        <<Str(rows[k].name1), Str(rows[k].name2), IntToStr(rows[k].score)>> ]

RECURSIVE SumScores(_)
SumScores(rows) ==
    IF rows = <<>> THEN 0 ELSE rows[1].score + SumScores(Tail(rows))

\* The float64 division a / b of two ints (a >= 0, b > 0): the sign of
\* (float quotient - exact quotient), 0 when a/b is a binary fraction.  The
\* quotient is rounded to 53 significant bits: with a/b = p/(2^t * d) in
\* lowest terms, d odd, it is rounded up exactly when the remainder of
\* p * 2^(52 - e - t) by d is more than d/2.
FloatDivError(a, b) ==
    IF a = 0 THEN 0
    ELSE LET g == Gcd(a, b)
             p == a \div g
             q == b \div g
             d == OddPart(q)
             t == TwoExponent(q)
             k == 52 - FloorLog2(p, q)
             rem == ((p % d) * Pow2Mod(k - t, d)) % d
         IN  IF d = 1 THEN 0
             ELSE IF 2 * rem > d THEN 1 ELSE -1

\* format(a / b, ".1f") in tenths: the decimal nearest to the float64
\* quotient.  The float is off the exact quotient by less than any distance
\* to a tie but 0, so it decides the exact ties only: one that is no binary
\* fraction goes the way the division was rounded, one that is goes to the
\* even digit.
Format1f(a, b) ==
    LET q == (10 * a) \div b
        r == (10 * a) % b
        e == FloatDivError(a, b)
    IN  IF 2 * r < b THEN q
        ELSE IF 2 * r > b THEN q + 1
        ELSE IF e < 0 THEN q
        ELSE IF e > 0 THEN q + 1
        ELSE IF q % 2 = 0 THEN q ELSE q + 1

\* A mean that is cut off, not rounded, after the first decimal place.
AvgSimilarityTruncated(rows) == (10 * SumScores(rows)) \div Len(rows)

\* Line 93: f"{results_df['Similarity Score'].mean():.1f}%", in tenths; the
\* mean is the float64 quotient of the sum and the count.
AvgSimilarity(rows) == Format1f(SumScores(rows), Len(rows))

\* Line 95: the cutoff of the high-confidence count.
HighConfidenceCutoff == 95

high_confidence(rows) ==
    Len(SelectSeq(rows, LAMBDA r : r.score >= HighConfidenceCutoff))

\* Lines 60-96: display, export and statistics.
ShowResults ==
    /\ pc = "show"
    /\ displayed' = Some(Styled(Get(results_df)))
    /\ csv' = Some(to_csv(Get(results_df)))
    /\ metrics' = Some([total |-> Len(Get(results_df)),
                        avg |-> AvgSimilarity(Get(results_df)),
                        high |-> high_confidence(Get(results_df))])
    /\ pc' = "done"
    /\ UNCHANGED <<uploaded_file, threshold, df, company_names, idx,
                   comparisons, duplicates, results_df, msgs>>

Next ==
    \/ NoFile
    \/ ReadCsv
    \/ CheckColumn
    \/ ExtractNames
    \/ ComparePair
    \/ SortResults
    \/ NoDuplicates
    \/ ShowResults

Spec == Init /\ [][Next]_vars
(***************************************************************************)
(* Vocabulary of the properties.                                           *)
(***************************************************************************)
Said(what) == \E k \in 1..Len(msgs) : msgs[k].what = what

SaidTimes(what) == Cardinality({ k \in 1..Len(msgs) : msgs[k].what = what })

\* The candidates were extracted (line 36 reported them).
Extracted == Said("unique_names")

\* The pair loop has ended.
ScanDone == Extracted /\ idx = None

\* The run, a detection run, has ended.
RunDone == pc = "done" /\ Extracted

\* The ResultSet: the rows of results_df, none when it was never built.
ResultSet == IF results_df = None THEN <<>> ELSE Get(results_df)

C == Len(company_names)

IndexPairs == { p \in (1..C) \X (1..C) : p[1] < p[2] }

Score(p) == ratio(Str(company_names[p[1]]), Str(company_names[p[2]]))

Times(seq, x) == Cardinality({ k \in 1..Len(seq) : seq[k] = x })

RowsOf(p) ==
    { k \in 1..Len(ResultSet) :
        /\ ResultSet[k].name1 = company_names[p[1]]
        /\ ResultSet[k].name2 = company_names[p[2]] }

\* C1: once the pair loop has ended on C candidates, fuzz.ratio was called
\* exactly C*(C-1)/2 times, once for every pair of positions i < j and never
\* for a pair in the other order or for a candidate with itself; while the
\* loop runs no pair has been scored twice.
C1_EachPairOnce ==
    /\ \A k \in 1..Len(comparisons) :
         /\ comparisons[k] \in IndexPairs
         /\ Times(comparisons, comparisons[k]) = 1
    /\ ScanDone =>
         /\ 2 * Len(comparisons) = C * (C - 1)
         /\ \A p \in IndexPairs : Times(comparisons, p) = 1

\* C1: a scan of three candidates has ended after three comparisons.
C1_Witness ==
    ScanDone /\ C = 3 /\ Len(comparisons) = 3

\* C2: no row of the collected matches or of the ResultSet has the same
\* text on its left and on its right.
C2_NoSelfPairs ==
    /\ \A k \in 1..Len(duplicates) :
         Str(duplicates[k].name1) # Str(duplicates[k].name2)
    /\ \A k \in 1..Len(ResultSet) :
         Str(ResultSet[k].name1) # Str(ResultSet[k].name2)

\* C3: after a run with threshold t the ResultSet holds a row for a pair of
\* candidates exactly when fuzz.ratio of their texts is at least t, it holds
\* one row only, and the row's score is that result.
C3_ThresholdFilter ==
    RunDone =>
        /\ \A p \in IndexPairs :
             /\ (RowsOf(p) # {}) <=> (Score(p) >= threshold)
             /\ Cardinality(RowsOf(p)) <= 1
             /\ \A k \in RowsOf(p) : ResultSet[k].score = Score(p)
        /\ \A k \in 1..Len(ResultSet) : \E p \in IndexPairs : k \in RowsOf(p)

\* C3: a run has ended with a pair that scores exactly the threshold in the
\* ResultSet and a pair that scores below it left out.
C3_Witness ==
    /\ RunDone
    /\ \E p \in IndexPairs : Score(p) = threshold /\ RowsOf(p) # {}
    /\ \E p \in IndexPairs : Score(p) < threshold /\ RowsOf(p) = {}

SameRows(a, b) ==
    /\ Len(a) = Len(b)
    /\ \A r \in Range(a) \cup Range(b) : Times(a, r) = Times(b, r)

Plain(shown) ==
    [ k \in 1..Len(shown) |->
        Row(shown[k].name1, shown[k].name2, shown[k].score) ]

\* C4: the table that is displayed and the exported CSV list the rows of
\* results_df in its order, the scores never increase from one position to
\* the next, and the rows are those that passed the filter, each as often.
C4_SortedDescending ==
    /\ results_df # None =>
         /\ \A m, n \in 1..Len(ResultSet) :
              m < n => ResultSet[m].score >= ResultSet[n].score
         /\ SameRows(ResultSet, duplicates)
    /\ displayed # None =>
         /\ Plain(Get(displayed)) = ResultSet
         /\ csv = Some(to_csv(ResultSet))
         /\ \A m, n \in 1..Len(Get(displayed)) :
              m < n => Get(displayed)[m].score >= Get(displayed)[n].score

\* C4: results were displayed whose rows were collected in another order,
\* a lower score before a higher one.
C4_Witness ==
    /\ displayed # None
    /\ Len(Get(displayed)) >= 2
    /\ \E m, n \in 1..Len(duplicates) :
         m < n /\ duplicates[m].score < duplicates[n].score

InOneDecimal(avg, rows) ==
    LET d == avg * Len(rows) - 10 * SumScores(rows)
    IN  2 * d <= Len(rows) /\ -2 * d <= Len(rows)

SummaryOf(rows) ==
    /\ metrics # None
    /\ Get(metrics).total = Len(rows)
    /\ InOneDecimal(Get(metrics).avg, rows)
    /\ Get(metrics).high =
         Cardinality({ k \in 1..Len(rows) : rows[k].score >= 95 })

\* C6 as claimed: every detection run produces a Summary, with the count of
\* the ResultSet, the mean of its scores (to the one decimal place that is
\* shown) and the number of its scores of 95 or more; the mean of an empty
\* ResultSet is 0 or null.
C6_SummaryEveryRun ==
    RunDone =>
        /\ metrics # None
        /\ Get(metrics).total = Len(ResultSet)
        /\ Get(metrics).high =
             Cardinality({ k \in 1..Len(ResultSet) : ResultSet[k].score >= 95 })
        /\ IF ResultSet = <<>> THEN Get(metrics).avg \in {0, None}
           ELSE InOneDecimal(Get(metrics).avg, ResultSet)

\* C6 amended: a detection run with a non-empty ResultSet produces a Summary
\* with the count of the ResultSet, the mean of its scores rounded to one
\* decimal place and the number of its scores of 95 or more; a run with an
\* empty ResultSet produces no Summary at all and ends in the
\* 'no duplicates' warning, not in an error.
C6_SummaryWhenFound ==
    /\ RunDone =>
         IF ResultSet # <<>> THEN SummaryOf(ResultSet)
         ELSE metrics = None /\ Said("no_duplicates")
                /\ ~Said("processing_file")
    /\ metrics # None => RunDone /\ ResultSet # <<>>

\* C6: a Summary of three pairs whose mean is not a whole number of tenths
\* and is rounded up, one pair of them at the cutoff or above.
C6_Witness ==
    /\ RunDone
    /\ metrics # None
    /\ Get(metrics).total = 3
    /\ 3 * Get(metrics).avg > 10 * SumScores(ResultSet)
    /\ Get(metrics).high >= 1

\* C7: the candidates hold no null and no empty text, and no two of them
\* have the same text.
C7_CandidatesDistinct ==
    /\ \A k \in 1..C :
         company_names[k] # Null /\ Str(company_names[k]) # <<>>
    /\ \A m, n \in 1..C :
         m # n => Str(company_names[m]) # Str(company_names[n])

\* C8: on a table without the column 'Company Name' the script reports the
\* error and the columns the table has, ends, and has extracted no
\* candidates, scored no pair and built no results, export or statistics.
C8_MissingColumn ==
    (df # None /\ RequiredColumn \notin Range(Get(df).columns)) =>
        /\ pc \in {"check", "done"}
        /\ pc = "done" =>
             msgs = << Msg("error", "missing_column", None),
                       Msg("info", "available_columns", Get(df).columns) >>
        /\ pc = "check" => msgs = <<>>
        /\ company_names = <<>>
        /\ comparisons = <<>>
        /\ duplicates = <<>>
        /\ results_df = None
        /\ displayed = None
        /\ csv = None
        /\ metrics = None

\* C8: the run on a table with the columns ID and Name has ended.
C8_Witness ==
    /\ pc = "done"
    /\ df # None
    /\ Get(df).columns = <<"ID", "Name">>
    /\ Said("missing_column")

Outcomes == {"missing_column", "found_pairs", "no_duplicates",
             "processing_file"}

OutcomeCount ==
    Cardinality({ k \in 1..Len(msgs) : msgs[k].what \in Outcomes })

\* C9: a run on a loaded table ends in exactly one of three outcomes: the
\* missing-column error, 'found N pairs' with N > 0 the size of the
\* ResultSet, or 'no duplicates found' with the advice to lower the
\* threshold.  It is 'no duplicates found' exactly when no pair of
\* candidates scores the threshold or more, and never the generic error.
C9_OneOutcome ==
    (pc = "done" /\ df # None) =>
        /\ OutcomeCount = 1
        /\ ~Said("processing_file")
        /\ Said("missing_column")
             <=> RequiredColumn \notin Range(Get(df).columns)
        /\ Said("found_pairs") =>
             /\ msgs[Len(msgs)] =
                  Msg("success", "found_pairs", Len(ResultSet))
             /\ Len(ResultSet) > 0
        /\ Said("no_duplicates") =>
             /\ SubSeq(msgs, Len(msgs) - 1, Len(msgs)) =
                  << Msg("warning", "no_duplicates", threshold),
                     Msg("info", "try_lowering", None) >>
             /\ ResultSet = <<>>
        /\ Extracted =>
             (Said("no_duplicates")
                <=> \A p \in IndexPairs : Score(p) < threshold)

\* C9: a run with threshold 100 on three candidates, no two of the same
\* text, has ended in 'no duplicates found'.
C9_Witness ==
    /\ pc = "done"
    /\ threshold = 100
    /\ C = 3
    /\ \A p \in IndexPairs : Score(p) < 100
    /\ Said("no_duplicates")

\* The rows of the given score, in their order.
WithScore(rows, v) == SelectSeq(rows, LAMBDA r : r.score = v)

\* C10: the sort is stable, rows of equal score stand in the ResultSet in
\* the order in which their pairs were collected.
C10_StableSort ==
    results_df # None =>
        \A v \in { duplicates[k].score : k \in 1..Len(duplicates) } :
            WithScore(ResultSet, v) = WithScore(duplicates, v)
====
